---- MODULE Spec2Model ----
(***************************************************************************)
(* alarms/src/config.rs: `optional()` resolves the alarm configuration     *)
(* from the process environment.  The environment is a map from key to     *)
(* string; strings are tuples of one-character strings so that             *)
(* str::parse::<u16>() and str::parse::<f64>() are computed from the text. *)
(***************************************************************************)
EXTENDS Integers, Sequences, FiniteSets, TLC

\* ------------------------------------------------------------- bounds
\* At most MaxSet environment variables are set at once.
MaxSet == 3

\* ---------------------------------------------------------- constants
DEFAULT_PERIOD_MINUTES == 1
MIN_PERIOD_MINUTES == 1
DEFAULT_DATA_POINTS == 5
MIN_DATA_POINTS == 1
DEFAULT_DATA_POINTS_TO_ALARM == 3
MIN_DATA_POINTS_TO_ALARM == 1
\* u16::MAX
U16_MAX == 65535

\* ------------------------------------------------------- alarm kinds
\* Alarm::iter(), each variant written as its to_string().
Alarms == <<"CPU_LOWER_LIMIT_VCPUS", "CPU_UPPER_LIMIT_VCPUS", "HEALTH_CHECK_FAILED">>
HealthCheckFailed == "HEALTH_CHECK_FAILED"
AlarmSet == {Alarms[n] : n \in 1..Len(Alarms)}

Tunables == <<"PERIOD_MINUTES", "DATA_POINTS", "DATA_POINTS_TO_ALARM">>
TunableSet == {Tunables[n] : n \in 1..Len(Tunables)}

\* format!("{alarm}_PERIOD_MINUTES") and its two siblings
EnvName(alarm, tunable) == alarm \o "_" \o tunable

Keys == TunableSet \cup AlarmSet \cup {EnvName(a, t) : a \in AlarmSet, t \in TunableSet}

\* The strings the environment variables are given here: "0", "3", "a" and "5."
\* for an alarm's base key, "0", "3", "a" and "65536" for the other keys.
BaseValues == { <<"0">>, <<"3">>, <<"a">>, <<"5", ".">> }
TunableValues == { <<"0">>, <<"3">>, <<"a">>, <<"6", "5", "5", "3", "6">> }
ValuesOf(key) == IF key \in AlarmSet THEN BaseValues ELSE TunableValues

\* ------------------------------------------------------------ parsing
Digit == ("0" :> 0) @@ ("1" :> 1) @@ ("2" :> 2) @@ ("3" :> 3) @@ ("4" :> 4) @@
         ("5" :> 5) @@ ("6" :> 6) @@ ("7" :> 7) @@ ("8" :> 8) @@ ("9" :> 9)
IsDigit(c) == c \in DOMAIN Digit

ParseErr == [ok |-> FALSE, val |-> 0]

\* The digit loop of u16::from_str: checked multiply-and-add, an error on the
\* first non-digit or on overflow.
RECURSIVE FromDigits(_, _, _)
FromDigits(s, n, acc) ==
    IF n > Len(s) THEN [ok |-> TRUE, val |-> acc]
    ELSE IF ~IsDigit(s[n]) THEN ParseErr
    ELSE IF acc * 10 + Digit[s[n]] > U16_MAX THEN ParseErr
    ELSE FromDigits(s, n + 1, acc * 10 + Digit[s[n]])

\* value.parse::<u16>(): empty is an error, a lone sign is an error, a leading
\* '+' is skipped, '-' is no digit of an unsigned type.
ParseU16(s) ==
    IF Len(s) = 0 THEN ParseErr
    ELSE IF Len(s) = 1 /\ s[1] \in {"+", "-"} THEN ParseErr
    ELSE IF s[1] = "+" THEN FromDigits(s, 2, 0)
    ELSE FromDigits(s, 1, 0)

\* First index >= n of s that holds no digit (Len(s) + 1 when there is none).
RECURSIVE SkipDigits(_, _)
SkipDigits(s, n) ==
    IF n > Len(s) \/ ~IsDigit(s[n]) THEN n ELSE SkipDigits(s, n + 1)

Lower(c) ==
    CASE c = "I" -> "i" [] c = "N" -> "n" [] c = "F" -> "f" [] c = "T" -> "t"
      [] c = "Y" -> "y" [] c = "A" -> "a" [] OTHER -> c

\* value.parse::<f64>() succeeds: [sign] (inf | infinity | nan | Number), with
\* Number = (Digit+ | Digit+ '.' Digit* | Digit* '.' Digit+) [(e|E) [sign] Digit+]
ParseF64Ok(s) ==
    LET b    == IF Len(s) > 0 /\ s[1] \in {"+", "-"} THEN 2 ELSE 1
        rest == [n \in 1..(Len(s) - b + 1) |-> Lower(s[n + b - 1])]
        i1   == SkipDigits(s, b)
        i2   == IF i1 <= Len(s) /\ s[i1] = "." THEN SkipDigits(s, i1 + 1) ELSE i1
        nInt == i1 - b
        nFrc == IF i2 > i1 THEN i2 - i1 - 1 ELSE 0
        hasE == i2 <= Len(s) /\ s[i2] \in {"e", "E"}
        e1   == IF i2 + 1 <= Len(s) /\ s[i2 + 1] \in {"+", "-"} THEN i2 + 2 ELSE i2 + 1
        e2   == SkipDigits(s, e1)
    IN  \/ rest \in { <<"i", "n", "f">>, <<"n", "a", "n">>,
                      <<"i", "n", "f", "i", "n", "i", "t", "y">> }
        \/ /\ nInt + nFrc >= 1
           /\ IF hasE THEN e2 > e1 /\ e2 = Len(s) + 1 ELSE i2 = Len(s) + 1

\* ------------------------------------------------------------- state
VARIABLES
    env,                          \* the process environment: key -> string, set keys only
    pc,                           \* the statement of optional() to run next
    default_period_minutes,
    default_data_points,
    default_data_points_to_alarm,
    iter,                         \* position of Alarm::iter()
    value,                        \* the base value of the alarm being resolved
    period_minutes,
    data_points,
    data_points_to_alarm,
    configs,                      \* HashMap<Alarm, AlarmConfig>
    warnings,                     \* what warn! has emitted, in order
    reads,                        \* the keys std::env::var was asked for, in order
    result,                       \* what optional() returned
    prev                          \* what the previous call returned

locals == <<default_period_minutes, default_data_points, default_data_points_to_alarm,
            iter, value, period_minutes, data_points, data_points_to_alarm>>
vars == <<env, pc, locals, configs, warnings, reads, result, prev>>

EmptyMap == [a \in {} |-> 0]
NoResult == [tag |-> "None", err |-> "", key |-> "", configs |-> EmptyMap]
Ok(map) == [tag |-> "Ok", err |-> "", key |-> "", configs |-> map]
Err(kind, key) == [tag |-> "Err", err |-> kind, key |-> key, configs |-> EmptyMap]

\* Mutant: data_points and data_points_to_alarm change places in the record.
AlarmConfigSwapped(v, p, d, dta) ==
    [value |-> v, period_minutes |-> p, data_points |-> dta, data_points_to_alarm |-> d]

AlarmConfig(v, p, d, dta) ==
    [value |-> v, period_minutes |-> p, data_points |-> d, data_points_to_alarm |-> dta]

\* Mutant: a variable set to "0" is taken as unset.
EnvVarZeroUnset(e, key) ==
    IF key \in DOMAIN e /\ e[key] # <<"0">> THEN [some |-> TRUE, val |-> e[key]]
    ELSE [some |-> FALSE, val |-> <<>>]

\* std::env::var(key).ok()
EnvVar(e, key) ==
    IF key \in DOMAIN e THEN [some |-> TRUE, val |-> e[key]]
    ELSE [some |-> FALSE, val |-> <<>>]

\* Mutant: value.parse::<u16>().ok(), a string that does not parse is taken as unset.
OptionU16Lenient(e, key) ==
    LET v == EnvVar(e, key)
    IN  IF ~v.some \/ ~ParseU16(v.val).ok THEN [ok |-> TRUE, some |-> FALSE, val |-> 0]
        ELSE [ok |-> TRUE, some |-> TRUE, val |-> ParseU16(v.val).val]

\* std::env::var(key).ok().map(|value| value.parse::<u16>()).transpose():
\* Ok(None) when the key is unset, Ok(Some(n)) or Err when it is set.
OptionU16(e, key) ==
    LET v == EnvVar(e, key)
    IN  IF ~v.some THEN [ok |-> TRUE, some |-> FALSE, val |-> 0]
        ELSE [ok |-> ParseU16(v.val).ok, some |-> TRUE, val |-> ParseU16(v.val).val]

\* Mutant: an unset key falls back to the hard-coded period default.
UnwrapOrHardDefault(opt, default) == IF opt.some THEN opt.val ELSE DEFAULT_PERIOD_MINUTES

\* Option::unwrap_or
UnwrapOr(opt, default) == IF opt.some THEN opt.val ELSE default

\* Mutant: the float check without the exception for HealthCheckFailed.
FloatCheckAll(alarm, v) == ~ParseF64Ok(v)

\* The float check of the base value: every alarm but HealthCheckFailed.
FloatCheckFails(alarm, v) == alarm # HealthCheckFailed /\ ~ParseF64Ok(v)

\* Mutant: the comparison is off by one.
BelowMinOffByOne(x, min) == x < min - 1

\* `if x < MIN { x = MIN; warn!(..) }`
BelowMin(x, min) == x < min

Envs ==
    LET Sets == {T \in SUBSET Keys : Cardinality(T) <= MaxSet}
    IN  UNION { {e \in [S -> BaseValues \cup TunableValues] :
                    \A k \in S : e[k] \in ValuesOf(k)} : S \in Sets }

InitLocals ==
    /\ pc = "default_period_minutes"
    /\ default_period_minutes = 0
    /\ default_data_points = 0
    /\ default_data_points_to_alarm = 0
    /\ iter = 1
    /\ value = <<>>
    /\ period_minutes = 0
    /\ data_points = 0
    /\ data_points_to_alarm = 0
    /\ configs = EmptyMap
    /\ warnings = <<>>
    /\ reads = <<>>
    /\ result = NoResult

Init ==
    /\ env \in Envs
    /\ prev = NoResult
    /\ InitLocals

\* ------------------------------------------------------------ actions
\* lines 58-63
DefaultPeriodMinutes ==
    /\ pc = "default_period_minutes"
    /\ reads' = Append(reads, "PERIOD_MINUTES")
    /\ LET opt == OptionU16(env, "PERIOD_MINUTES")
       IN  IF ~opt.ok
           THEN /\ result' = Err("ParseIntWithMetadata", "PERIOD_MINUTES")
                /\ pc' = "done"
                /\ UNCHANGED default_period_minutes
           ELSE /\ default_period_minutes' = UnwrapOr(opt, DEFAULT_PERIOD_MINUTES)
                /\ pc' = "default_data_points"
                /\ UNCHANGED result
    /\ UNCHANGED <<env, default_data_points, default_data_points_to_alarm, iter, value,
                   period_minutes, data_points, data_points_to_alarm, configs, warnings, prev>>

\* Mutant: the error of DATA_POINTS carries the key of the statement above it.
DefaultDataPointsWrongKey ==
    /\ pc = "default_data_points"
    /\ reads' = Append(reads, "DATA_POINTS")
    /\ LET opt == OptionU16(env, "DATA_POINTS")
       IN  IF ~opt.ok
           THEN /\ result' = Err("ParseIntWithMetadata", "PERIOD_MINUTES")
                /\ pc' = "done"
                /\ UNCHANGED default_data_points
           ELSE /\ default_data_points' = UnwrapOr(opt, DEFAULT_DATA_POINTS)
                /\ pc' = "default_data_points_to_alarm"
                /\ UNCHANGED result
    /\ UNCHANGED <<env, default_period_minutes, default_data_points_to_alarm, iter, value,
                   period_minutes, data_points, data_points_to_alarm, configs, warnings, prev>>

\* lines 64-69
DefaultDataPoints ==
    /\ pc = "default_data_points"
    /\ reads' = Append(reads, "DATA_POINTS")
    /\ LET opt == OptionU16(env, "DATA_POINTS")
       IN  IF ~opt.ok
           THEN /\ result' = Err("ParseIntWithMetadata", "DATA_POINTS")
                /\ pc' = "done"
                /\ UNCHANGED default_data_points
           ELSE /\ default_data_points' = UnwrapOr(opt, DEFAULT_DATA_POINTS)
                /\ pc' = "default_data_points_to_alarm"
                /\ UNCHANGED result
    /\ UNCHANGED <<env, default_period_minutes, default_data_points_to_alarm, iter, value,
                   period_minutes, data_points, data_points_to_alarm, configs, warnings, prev>>

\* lines 70-77
DefaultDataPointsToAlarm ==
    /\ pc = "default_data_points_to_alarm"
    /\ reads' = Append(reads, "DATA_POINTS_TO_ALARM")
    /\ LET opt == OptionU16(env, "DATA_POINTS_TO_ALARM")
       IN  IF ~opt.ok
           THEN /\ result' = Err("ParseIntWithMetadata", "DATA_POINTS_TO_ALARM")
                /\ pc' = "done"
                /\ UNCHANGED default_data_points_to_alarm
           ELSE /\ default_data_points_to_alarm' = UnwrapOr(opt, DEFAULT_DATA_POINTS_TO_ALARM)
                /\ pc' = "for_alarm"
                /\ UNCHANGED result
    /\ UNCHANGED <<env, default_period_minutes, default_data_points, iter, value,
                   period_minutes, data_points, data_points_to_alarm, configs, warnings, prev>>

\* Mutant: the scoped period key is parsed before the base key is looked at.
ForAlarmEager ==
    /\ pc = "for_alarm"
    /\ iter <= Len(Alarms)
    /\ reads' = Append(reads, Alarms[iter])
    /\ LET alarm == Alarms[iter]
           v     == EnvVar(env, alarm)
           name  == EnvName(alarm, "PERIOD_MINUTES")
       IN  IF ~OptionU16(env, name).ok
           THEN /\ result' = Err("ParseIntWithMetadata", name)
                /\ pc' = "done"
                /\ UNCHANGED <<iter, value>>
           ELSE IF ~v.some
           THEN /\ iter' = iter + 1
                /\ UNCHANGED <<pc, value, result>>
           ELSE IF FloatCheckFails(alarm, v.val)
           THEN /\ result' = Err("ParseFloatWithMetadata", alarm)
                /\ pc' = "done"
                /\ UNCHANGED <<iter, value>>
           ELSE /\ value' = v.val
                /\ pc' = "period_minutes"
                /\ UNCHANGED <<iter, result>>
    /\ UNCHANGED <<env, default_period_minutes, default_data_points,
                   default_data_points_to_alarm, period_minutes, data_points,
                   data_points_to_alarm, configs, warnings, prev>>

\* lines 78-86: the next alarm of Alarm::iter(), its base value and the float check
ForAlarm ==
    /\ pc = "for_alarm"
    /\ iter <= Len(Alarms)
    /\ reads' = Append(reads, Alarms[iter])
    /\ LET alarm == Alarms[iter]
           v     == EnvVar(env, alarm)
       IN  IF ~v.some
           THEN /\ iter' = iter + 1
                /\ UNCHANGED <<pc, value, result>>
           ELSE IF FloatCheckFails(alarm, v.val)
           THEN /\ result' = Err("ParseFloatWithMetadata", alarm)
                /\ pc' = "done"
                /\ UNCHANGED <<iter, value>>
           ELSE /\ value' = v.val
                /\ pc' = "period_minutes"
                /\ UNCHANGED <<iter, result>>
    /\ UNCHANGED <<env, default_period_minutes, default_data_points,
                   default_data_points_to_alarm, period_minutes, data_points,
                   data_points_to_alarm, configs, warnings, prev>>

\* lines 88-94
PeriodMinutes ==
    /\ pc = "period_minutes"
    /\ LET period_minutes_env_name == EnvName(Alarms[iter], "PERIOD_MINUTES")
           opt == OptionU16(env, period_minutes_env_name)
       IN  /\ reads' = Append(reads, period_minutes_env_name)
           /\ IF ~opt.ok
              THEN /\ result' = Err("ParseIntWithMetadata", period_minutes_env_name)
                   /\ pc' = "done"
                   /\ UNCHANGED period_minutes
              ELSE /\ period_minutes' = UnwrapOr(opt, default_period_minutes)
                   /\ pc' = "clamp_period_minutes"
                   /\ UNCHANGED result
    /\ UNCHANGED <<env, default_period_minutes, default_data_points,
                   default_data_points_to_alarm, iter, value, data_points,
                   data_points_to_alarm, configs, warnings, prev>>

\* lines 95-98
ClampPeriodMinutes ==
    /\ pc = "clamp_period_minutes"
    /\ IF BelowMin(period_minutes, MIN_PERIOD_MINUTES)
       THEN /\ period_minutes' = MIN_PERIOD_MINUTES
            /\ warnings' = Append(warnings, [key |-> EnvName(Alarms[iter], "PERIOD_MINUTES"),
                                             min |-> MIN_PERIOD_MINUTES])
       ELSE UNCHANGED <<period_minutes, warnings>>
    /\ pc' = "data_points"
    /\ UNCHANGED <<env, default_period_minutes, default_data_points,
                   default_data_points_to_alarm, iter, value, data_points,
                   data_points_to_alarm, configs, reads, result, prev>>

\* lines 100-106
DataPoints ==
    /\ pc = "data_points"
    /\ LET data_points_env_name == EnvName(Alarms[iter], "DATA_POINTS")
           opt == OptionU16(env, data_points_env_name)
       IN  /\ reads' = Append(reads, data_points_env_name)
           /\ IF ~opt.ok
              THEN /\ result' = Err("ParseIntWithMetadata", data_points_env_name)
                   /\ pc' = "done"
                   /\ UNCHANGED data_points
              ELSE /\ data_points' = UnwrapOr(opt, default_data_points)
                   /\ pc' = "clamp_data_points"
                   /\ UNCHANGED result
    /\ UNCHANGED <<env, default_period_minutes, default_data_points,
                   default_data_points_to_alarm, iter, value, period_minutes,
                   data_points_to_alarm, configs, warnings, prev>>

\* lines 107-110
ClampDataPoints ==
    /\ pc = "clamp_data_points"
    /\ IF BelowMin(data_points, MIN_DATA_POINTS)
       THEN /\ data_points' = MIN_DATA_POINTS
            /\ warnings' = Append(warnings, [key |-> EnvName(Alarms[iter], "DATA_POINTS"),
                                             min |-> MIN_DATA_POINTS])
       ELSE UNCHANGED <<data_points, warnings>>
    /\ pc' = "data_points_to_alarm"
    /\ UNCHANGED <<env, default_period_minutes, default_data_points,
                   default_data_points_to_alarm, iter, value, period_minutes,
                   data_points_to_alarm, configs, reads, result, prev>>

\* lines 112-120
DataPointsToAlarm ==
    /\ pc = "data_points_to_alarm"
    /\ LET data_points_to_alarm_env_name == EnvName(Alarms[iter], "DATA_POINTS_TO_ALARM")
           opt == OptionU16(env, data_points_to_alarm_env_name)
       IN  /\ reads' = Append(reads, data_points_to_alarm_env_name)
           /\ IF ~opt.ok
              THEN /\ result' = Err("ParseIntWithMetadata", data_points_to_alarm_env_name)
                   /\ pc' = "done"
                   /\ UNCHANGED data_points_to_alarm
              ELSE /\ data_points_to_alarm' = UnwrapOr(opt, default_data_points_to_alarm)
                   /\ pc' = "clamp_data_points_to_alarm"
                   /\ UNCHANGED result
    /\ UNCHANGED <<env, default_period_minutes, default_data_points,
                   default_data_points_to_alarm, iter, value, period_minutes,
                   data_points, configs, warnings, prev>>

\* lines 121-124
ClampDataPointsToAlarm ==
    /\ pc = "clamp_data_points_to_alarm"
    /\ IF BelowMin(data_points_to_alarm, MIN_DATA_POINTS_TO_ALARM)
       THEN /\ data_points_to_alarm' = MIN_DATA_POINTS_TO_ALARM
            /\ warnings' = Append(warnings,
                                  [key |-> EnvName(Alarms[iter], "DATA_POINTS_TO_ALARM"),
                                   min |-> MIN_DATA_POINTS_TO_ALARM])
       ELSE UNCHANGED <<data_points_to_alarm, warnings>>
    /\ pc' = "insert"
    /\ UNCHANGED <<env, default_period_minutes, default_data_points,
                   default_data_points_to_alarm, iter, value, period_minutes,
                   data_points, configs, reads, result, prev>>

\* lines 126-135: configs.insert(alarm, AlarmConfig { .. }), then the next alarm
Insert ==
    /\ pc = "insert"
    /\ configs' = [a \in DOMAIN configs \cup {Alarms[iter]} |->
                      IF a = Alarms[iter]
                      THEN AlarmConfig(value, period_minutes, data_points, data_points_to_alarm)
                      ELSE configs[a]]
    /\ iter' = iter + 1
    /\ pc' = "for_alarm"
    /\ UNCHANGED <<env, default_period_minutes, default_data_points,
                   default_data_points_to_alarm, value, period_minutes, data_points,
                   data_points_to_alarm, warnings, reads, result, prev>>

\* lines 137-138: Alarm::iter() is exhausted, Ok(configs)
Return ==
    /\ pc = "for_alarm"
    /\ iter > Len(Alarms)
    /\ result' = Ok(configs)
    /\ pc' = "done"
    /\ UNCHANGED <<env, locals, configs, warnings, reads, prev>>

\* The keys <KIND>_PERIOD_MINUTES, <KIND>_DATA_POINTS, <KIND>_DATA_POINTS_TO_ALARM
\* of the kinds whose base key is unset in e.
ScopedKeysOfAbsent(e) ==
    {EnvName(a, t) : a \in AlarmSet \ DOMAIN e, t \in TunableSet}

\* Between two calls (lines 185-189: set_var, then the next call) one scoped key
\* of a kind without base key is set, changed or removed; the result of the call
\* that ended is kept in prev and optional() is called again.
CallAgain ==
    /\ pc = "done"
    /\ \E key \in ScopedKeysOfAbsent(env) :
          \/ \E v \in ValuesOf(key) :
                /\ EnvVar(env, key) # [some |-> TRUE, val |-> v]
                /\ Cardinality(DOMAIN env \cup {key}) <= MaxSet
                /\ env' = [k \in DOMAIN env \cup {key} |-> IF k = key THEN v ELSE env[k]]
          \/ /\ key \in DOMAIN env
             /\ env' = [k \in DOMAIN env \ {key} |-> env[k]]
    /\ prev' = result
    /\ pc' = "default_period_minutes"
    /\ default_period_minutes' = 0
    /\ default_data_points' = 0
    /\ default_data_points_to_alarm' = 0
    /\ iter' = 1
    /\ value' = <<>>
    /\ period_minutes' = 0
    /\ data_points' = 0
    /\ data_points_to_alarm' = 0
    /\ configs' = EmptyMap
    /\ warnings' = <<>>
    /\ reads' = <<>>
    /\ result' = NoResult

Next ==
    \/ DefaultPeriodMinutes
    \/ DefaultDataPoints
    \/ DefaultDataPointsToAlarm
    \/ ForAlarm
    \/ PeriodMinutes
    \/ ClampPeriodMinutes
    \/ DataPoints
    \/ ClampDataPoints
    \/ DataPointsToAlarm
    \/ ClampDataPointsToAlarm
    \/ Insert
    \/ Return
    \/ CallAgain

Spec == Init /\ [][Next]_vars

\* ------------------------------------------------------- properties
\* What the properties say of an environment, written from the keys alone.
Done == pc = "done"
Present(e) == AlarmSet \cap DOMAIN e
IsNumeric(alarm) == alarm # HealthCheckFailed
HardDefault(t) ==
    CASE t = "PERIOD_MINUTES" -> 1 [] t = "DATA_POINTS" -> 5 [] t = "DATA_POINTS_TO_ALARM" -> 3
\* the parsed value of the global key, the hard-coded default when it is unset
GlobalDefault(e, t) == IF t \in DOMAIN e THEN ParseU16(e[t]).val ELSE HardDefault(t)
\* the value of a tunable before clamping
Resolved(e, a, t) ==
    IF EnvName(a, t) \in DOMAIN e THEN ParseU16(e[EnvName(a, t)]).val ELSE GlobalDefault(e, t)
Field(rec, t) ==
    CASE t = "PERIOD_MINUTES" -> rec.period_minutes
      [] t = "DATA_POINTS" -> rec.data_points
      [] t = "DATA_POINTS_TO_ALARM" -> rec.data_points_to_alarm
\* a key that is set to a string its parser refuses
Malformed(e, k) ==
    /\ k \in DOMAIN e
    /\ IF k \in AlarmSet THEN IsNumeric(k) /\ ~ParseF64Ok(e[k]) ELSE ~ParseU16(e[k]).ok
ScopedKeys(a) == <<a, EnvName(a, "PERIOD_MINUTES"), EnvName(a, "DATA_POINTS"),
                   EnvName(a, "DATA_POINTS_TO_ALARM")>>
\* the evaluation order: the global keys, then the keys of each kind whose base
\* key is set, kind by kind in the enumeration's order
RECURSIVE KindKeys(_, _)
KindKeys(e, n) ==
    IF n > Len(Alarms) THEN <<>>
    ELSE (IF Alarms[n] \in DOMAIN e THEN ScopedKeys(Alarms[n]) ELSE <<>>) \o KindKeys(e, n + 1)
EvalOrder(e) == Tunables \o KindKeys(e, 1)
MalformedAt(e) == {n \in 1..Len(EvalOrder(e)) : Malformed(e, EvalOrder(e)[n])}
FirstMalformed(e) == CHOOSE n \in MalformedAt(e) : \A m \in MalformedAt(e) : n <= m
ErrorOf(k) == IF k \in AlarmSet THEN "ParseFloatWithMetadata" ELSE "ParseIntWithMetadata"

\* C1: every record of a returned mapping has period_minutes >= 1,
\* data_points >= 1 and data_points_to_alarm >= 1.
C1_TunablesAtLeastMin ==
    result.tag = "Ok" =>
        \A a \in DOMAIN result.configs :
            /\ result.configs[a].period_minutes >= 1
            /\ result.configs[a].data_points >= 1
            /\ result.configs[a].data_points_to_alarm >= 1

\* a mapping is returned for an environment in which a tunable resolves to 0,
\* once from the kind's own key and once from the global key
C1_Witness ==
    /\ result.tag = "Ok"
    /\ \E a \in DOMAIN result.configs :
          /\ Resolved(env, a, "PERIOD_MINUTES") = 0
          /\ EnvName(a, "PERIOD_MINUTES") \in DOMAIN env
          /\ Resolved(env, a, "DATA_POINTS") = 0
          /\ EnvName(a, "DATA_POINTS") \notin DOMAIN env

C3_AbsentOverrideTakesGlobalDefault ==
    /\ (pc = "clamp_period_minutes"
        /\ EnvName(Alarms[iter], "PERIOD_MINUTES") \notin DOMAIN env)
       => period_minutes = GlobalDefault(env, "PERIOD_MINUTES")
    /\ (pc = "clamp_data_points"
        /\ EnvName(Alarms[iter], "DATA_POINTS") \notin DOMAIN env)
       => data_points = GlobalDefault(env, "DATA_POINTS")
    /\ (pc = "clamp_data_points_to_alarm"
        /\ EnvName(Alarms[iter], "DATA_POINTS_TO_ALARM") \notin DOMAIN env)
       => data_points_to_alarm = GlobalDefault(env, "DATA_POINTS_TO_ALARM")
    /\ result.tag = "Ok" =>
          \A a \in DOMAIN result.configs : \A t \in TunableSet :
              (EnvName(a, t) \notin DOMAIN env /\ GlobalDefault(env, t) >= 1)
              => Field(result.configs[a], t) = GlobalDefault(env, t)

\* a returned record took its period from the global key PERIOD_MINUTES = "3"
\* and its data points from the hard-coded 5, while another kind overrides
C3_Witness ==
    /\ result.tag = "Ok"
    /\ "PERIOD_MINUTES" \in DOMAIN env
    /\ "DATA_POINTS" \notin DOMAIN env
    /\ \E a \in DOMAIN result.configs :
          /\ EnvName(a, "PERIOD_MINUTES") \notin DOMAIN env
          /\ EnvName(a, "DATA_POINTS") \notin DOMAIN env
          /\ result.configs[a].period_minutes = 3
          /\ result.configs[a].data_points = 5
          /\ result.configs[a].data_points_to_alarm = 3

\* C4: a tunable that resolves below 1 is stored as exactly 1, one that
\* resolves to 1 or more is stored unchanged, and resolution fails only on a
\* key its parser refuses, never on a value below the minimum.
C4_ClampIsTotalAndExact ==
    /\ result.tag = "Ok" =>
          \A a \in DOMAIN result.configs : \A t \in TunableSet :
              Field(result.configs[a], t) =
                  IF Resolved(env, a, t) < 1 THEN 1 ELSE Resolved(env, a, t)
    /\ result.tag = "Err" => Malformed(env, result.key)
    /\ (Done /\ MalformedAt(env) = {}) => result.tag = "Ok"

\* a returned record holds a clamped 1 for one tunable, where the 0 came from
\* the global default, and an unchanged 3 for another
C4_Witness ==
    /\ result.tag = "Ok"
    /\ \E a \in DOMAIN result.configs :
          /\ Resolved(env, a, "DATA_POINTS_TO_ALARM") = 0
          /\ EnvName(a, "DATA_POINTS_TO_ALARM") \notin DOMAIN env
          /\ result.configs[a].data_points_to_alarm = 1
          /\ Resolved(env, a, "PERIOD_MINUTES") = 3
          /\ result.configs[a].period_minutes = 3

\* the tunable keys that are set to a string u16 parsing refuses
GlobalKeys == TunableSet
ScopedTunableKeys(as) == {EnvName(a, t) : a \in as, t \in TunableSet}
MalformedIn(e, ks) == {k \in ks : Malformed(e, k)}

\* C5 as stated: a malformed value in any tunable key, global or scoped to any
\* kind, makes the call fail, whichever base keys are set.
C5_AnyMalformedTunableFails ==
    (Done /\ MalformedIn(env, GlobalKeys \cup ScopedTunableKeys(AlarmSet)) # {})
    => result.tag = "Err"

\* C5 amended: a malformed value in a global tunable key, or in a tunable key
\* scoped to a kind whose base key is set, makes the call fail.
C5_MalformedReadTunableFails ==
    (Done /\ MalformedIn(env, GlobalKeys \cup ScopedTunableKeys(Present(env))) # {})
    => result.tag = "Err"

\* the call failed on the malformed scoped key of the last kind, after a kind
\* with well-formed keys was resolved
C5_Witness ==
    /\ result.tag = "Err"
    /\ DOMAIN configs # {}
    /\ MalformedIn(env, GlobalKeys) = {}
    /\ MalformedIn(env, ScopedTunableKeys(Present(env))) # {}

\* C6 as stated: a numeric kind whose base value is no float makes the call
\* fail with the float error naming that kind's key; the signal kind's value
\* is never checked and is stored verbatim.
C6_BadFloatFailsNamingItsKind ==
    /\ Done =>
          \A a \in Present(env) :
              (IsNumeric(a) /\ ~ParseF64Ok(env[a]))
              => result = Err("ParseFloatWithMetadata", a)
    /\ ~(result.tag = "Err" /\ result.key = HealthCheckFailed)
    /\ result.tag = "Ok" =>
          \A a \in DOMAIN result.configs :
              /\ result.configs[a].value = env[a]
              /\ IsNumeric(a) => ParseF64Ok(result.configs[a].value)

\* C6 amended: a numeric kind whose base value is no float makes the call
\* fail, with the float error naming that kind's key when no key earlier in
\* the evaluation order is malformed; every numeric record returned holds a
\* value that parses as a float; the signal kind's value is never the cause of
\* an error and is stored verbatim.
C6_BadFloatFails ==
    /\ Done =>
          \A a \in Present(env) :
              (IsNumeric(a) /\ ~ParseF64Ok(env[a]))
              => /\ result.tag = "Err"
                 /\ EvalOrder(env)[FirstMalformed(env)] = a
                    => result = Err("ParseFloatWithMetadata", a)
    /\ ~(result.tag = "Err" /\ result.key = HealthCheckFailed)
    /\ result.tag = "Ok" =>
          \A a \in DOMAIN result.configs :
              /\ result.configs[a].value = env[a]
              /\ IsNumeric(a) => ParseF64Ok(result.configs[a].value)

\* the float error names the second numeric kind after the first was resolved
C6_WitnessFloatError ==
    /\ result = Err("ParseFloatWithMetadata", Alarms[2])
    /\ Alarms[1] \in DOMAIN configs

\* C7: when the only key set is a numeric kind's base key with value "0", the
\* call succeeds and the returned mapping is empty.
C7_ZeroIsNotConfigured ==
    (Done /\ \E a \in AlarmSet : IsNumeric(a) /\ DOMAIN env = {a} /\ env[a] = <<"0">>)
    => result = Ok(EmptyMap)

\* the keys asked for, without the base keys of the kinds that have none
RECURSIVE Evaluated(_, _)
Evaluated(e, rs) ==
    IF rs = <<>> THEN <<>>
    ELSE (IF Head(rs) \in AlarmSet \ DOMAIN e THEN <<>> ELSE <<Head(rs)>>)
         \o Evaluated(e, Tail(rs))

\* C8: when one key or several are malformed, the call fails with the one
\* error that names the first malformed key of the evaluation order, with the
\* integer error for a tunable key and the float error for a base key; the
\* keys evaluated are those of the order up to that key and no later one; no
\* mapping is returned.
C8_FirstMalformedKeyIsReported ==
    (Done /\ MalformedAt(env) # {}) =>
        LET n == FirstMalformed(env)
            k == EvalOrder(env)[n]
        IN  /\ result = Err(ErrorOf(k), k)
            /\ result.tag # "Ok"
            /\ Evaluated(env, reads) = SubSeq(EvalOrder(env), 1, n)

\* two keys are malformed, the call failed after a valid kind was resolved
C8_Witness ==
    /\ Done
    /\ Cardinality(MalformedAt(env)) >= 2
    /\ DOMAIN configs # {}
    /\ result.tag = "Err"

\* the key that supplied the value a tunable resolved to
Supplier(e, a, t) == IF EnvName(a, t) \in DOMAIN e THEN EnvName(a, t) ELSE t
Clamped(e) == {<<a, t>> \in Present(e) \X TunableSet : Resolved(e, a, t) < 1}

\* C9: when the call succeeds, one warning is emitted for each tunable of a
\* present kind that resolved below 1, and no other; each names the key that
\* supplied the value (the kind-scoped key when it is set, the global key when
\* the value fell back to the global default) and the minimum 1.
C9_WarningNamesTheSupplyingKey ==
    result.tag = "Ok" =>
        /\ Len(warnings) = Cardinality(Clamped(env))
        /\ {warnings[n] : n \in 1..Len(warnings)} =
              {[key |-> Supplier(env, c[1], c[2]), min |-> 1] : c \in Clamped(env)}

\* C10: the tunable keys scoped to a kind whose base key is unset have no
\* influence: after such a key was set, changed or removed, the call returns
\* what the call before it returned, the same mapping or the same error on
\* the same key.
C10_ScopedKeysOfAbsentKindsAreIgnored ==
    (Done /\ prev.tag # "None") => result = prev

\* the second call returned the mapping of the first although a malformed
\* tunable key of a kind without base key is set
C10_Witness ==
    /\ Done
    /\ prev.tag = "Ok"
    /\ DOMAIN prev.configs # {}
    /\ result = prev
    /\ MalformedIn(env, ScopedKeysOfAbsent(env)) # {}

====
